---- MODULE Spec2Model ----
(***************************************************************************)
(* Lens expression helper (prependDatasourceExpression,                    *)
(* prependKibanaContext, buildExpression) as a state machine: a pending    *)
(* call with its arguments is the initial state, one action per exported   *)
(* function computes what the function returns or throws (Spec).           *)
(* Alerting UI (plugin setup and start, the alerts list and its delete     *)
(* requests) as a second state machine (SpecAlerts).                       *)
(***************************************************************************)
EXTENDS Naturals, Sequences, FiniteSets

VARIABLES
  op,                       \* the exported function that is called
  visualization,            \* buildExpression: the visualization, or Null
  visualizationExpression,  \* prependDatasourceExpression: Ast | string | null
  datasourceMap,            \* Object.entries order of the data-source ids
  datasourceStates,         \* id -> [isLoading, state], on the ids that have an entry
  expression,               \* prependKibanaContext: Ast | string | null
  timeRange, query, filters,\* prependKibanaContext: the context, each possibly undefined
  pc,                       \* "called" | "returned" | "thrown"
  result,                   \* the value returned (Null until then), or the error thrown
  requested                 \* the toExpression calls made, in order: <<datasourceId, layerId>>

lensVars == <<op, visualization, visualizationExpression, datasourceMap, datasourceStates,
              expression, timeRange, query, filters, pc, result, requested>>

VARIABLES
  capabilities,             \* capabilities.get(): [actions |-> [show], alerting |-> [show, delete]]
  lifecycle,                \* Plugin: "constructed" | "setup" | "started"
  sections,                 \* ids registered in the 'kibana' management section
  services,                 \* of docTitleService and breadcrumbService, those initialised
  routesRegistered,         \* routes.when(...) done
  mounted,                  \* AlertsList is rendered
  alerts,                   \* useState: ids of the alerts loaded
  selectedItems,            \* useState: ids of the rows selected
  isLoadingAlerts,          \* useState
  isDeletingActions,        \* useState
  requests,                 \* http requests in the order issued, each with its status
  deleteCalls,              \* deleteItems calls in the order started, each with its position
  toasts                    \* toastNotifications.addDanger calls in order

uiVars == <<capabilities, lifecycle, sections, services, routesRegistered, mounted, alerts,
            selectedItems, isLoadingAlerts, isDeletingActions, requests, deleteCalls, toasts>>

vars == <<lensVars, uiVars>>

\* new Plugin(initializerContext): nothing registered, nothing rendered
Constructed ==
  /\ lifecycle = "constructed"
  /\ sections = {}
  /\ services = {}
  /\ routesRegistered = FALSE
  /\ mounted = FALSE
  /\ alerts = {}
  /\ selectedItems = {}
  /\ isLoadingAlerts = FALSE
  /\ isDeletingActions = FALSE
  /\ requests = <<>>
  /\ deleteCalls = <<>>
  /\ toasts = <<>>

\* the alerting UI left alone while a Lens helper call is examined
UiIdle ==
  /\ capabilities = [actions |-> [show |-> FALSE], alerting |-> [show |-> FALSE, delete |-> FALSE]]
  /\ Constructed

----------------------------------------------------------------------------
(* Bounds of the model *)

MaxLayers == 3     \* most layers the data sources of one call report in total

DatasourceIds == {"ds1", "ds2"}
LayerIds == {"L1", "L2"}

----------------------------------------------------------------------------
(* JavaScript values *)

Null == [type |-> "null"]
Undefined == [type |-> "undefined"]
Text(tokens) == [type |-> "string", text |-> tokens]
Fn(name, args) == [type |-> "function", function |-> name, arguments |-> args]
Expr(chain) == [type |-> "expression", chain |-> chain]
Thrown(e) == [type |-> "error", error |-> e]

\* arguments: {} of a function node; arguments are <<name, values>> pairs in key order
NoArgs == <<>>

JStr(s) == [type |-> "jstr", s |-> s]
JArr(items) == [type |-> "jarr", items |-> items]
JObj(members) == [type |-> "jobj", members |-> members]

\* if (x), !x, x ? a : b: null, undefined and '' are falsy, objects and arrays are truthy
Truthy(v) ==
  /\ v.type # "null"
  /\ v.type # "undefined"
  /\ ~(v.type = "string" /\ v.text = <<>>)

IsString(v) == v.type = "string"

Arg(node, name) ==
  LET i == CHOOSE k \in 1..Len(node.arguments) : node.arguments[k][1] = name
  IN node.arguments[i][2]

----------------------------------------------------------------------------
(* fromExpression of @kbn/interpreter: function names separated by "|";     *)
(* the empty text is the empty chain; anything else fails to parse.        *)

WellFormed(tokens) ==
  \/ Len(tokens) = 0
  \/ /\ Len(tokens) % 2 = 1
     /\ \A i \in 1..Len(tokens) : (i % 2 = 0) <=> (tokens[i] = "|")

fromExpression(text) ==
  IF WellFormed(text.text)
  THEN Expr([i \in 1..((Len(text.text) + 1) \div 2) |-> Fn(text.text[2 * i - 1], NoArgs)])
  ELSE Thrown("Unable to parse expression")

\* typeof x === 'string' ? fromExpression(x) : x
Parsed(x) == IF IsString(x) THEN fromExpression(x) ELSE x

----------------------------------------------------------------------------
(* Datasource capability: getLayers(state), toExpression(state, layerId)   *)

getLayers(state) == state.layers

\* datasource.toExpression(state, layerId) of the data source registered as datasourceId
toExpression(datasourceId, state, layerId) ==
  CASE state.expressions[layerId] = "null" -> Null
    [] state.expressions[layerId] = "ast" -> Expr(<<Fn(datasourceId, NoArgs), Fn(layerId, NoArgs)>>)
    [] state.expressions[layerId] = "text" -> Text(<<layerId, "|", datasourceId>>)
    [] state.expressions[layerId] = "empty" -> Text(<<>>)
    [] state.expressions[layerId] = "malformed" -> Text(<<layerId, "|">>)

----------------------------------------------------------------------------
(* prependDatasourceExpression *)

\* variant: datasourceExpressions.unshift([layerId, result])
RECURSIVE layersForEachUnshift(_, _, _, _, _)
layersForEachUnshift(acc, datasourceId, state, layers, i) ==
  IF i > Len(layers) THEN acc
  ELSE LET layerId == layers[i]
           res == toExpression(datasourceId, state, layerId)
           next == [acc EXCEPT
                      !.calls = Append(@, <<datasourceId, layerId>>),
                      !.datasourceExpressions =
                         IF Truthy(res) THEN <<(<<layerId, res>>)>> \o @ ELSE @]
       IN layersForEachUnshift(next, datasourceId, state, layers, i + 1)

\* layers.forEach(layerId => ...) from layer i of one data source on
RECURSIVE layersForEach(_, _, _, _, _)
layersForEach(acc, datasourceId, state, layers, i) ==
  IF i > Len(layers) THEN acc
  ELSE LET layerId == layers[i]
           res == toExpression(datasourceId, state, layerId)
           next == [acc EXCEPT
                      !.calls = Append(@, <<datasourceId, layerId>>),
                      !.datasourceExpressions =
                         IF Truthy(res) THEN Append(@, <<layerId, res>>) ELSE @]
       IN layersForEach(next, datasourceId, state, layers, i + 1)

\* Object.entries(datasourceMap).forEach(...) from entry d on
RECURSIVE entriesForEach(_, _, _, _)
entriesForEach(acc, map, states, d) ==
  IF d > Len(map) THEN acc
  ELSE IF map[d] \notin DOMAIN states
       THEN [acc EXCEPT !.thrown = TRUE]   \* datasourceStates[datasourceId] is undefined
       ELSE LET state == states[map[d]].state
                layers == getLayers(states[map[d]].state)
            IN entriesForEach(layersForEach(acc, map[d], state, layers, 1), map, states, d + 1)

collectDatasourceExpressions(map, states) ==
  entriesForEach([datasourceExpressions |-> <<>>, calls |-> <<>>, thrown |-> FALSE],
                 map, states, 1)

datafetchExpression(parsedDatasourceExpressions) ==
  Fn("lens_merge_tables",
     << <<"layerIds", [i \in 1..Len(parsedDatasourceExpressions) |->
                          parsedDatasourceExpressions[i][1]]>>,
        <<"tables", [i \in 1..Len(parsedDatasourceExpressions) |->
                          parsedDatasourceExpressions[i][2]]>> >>)

\* variant: chain: [...parsedVisualizationExpression.chain, datafetchExpression]
mergedExpressionAppended(datafetch, parsedVisualizationExpression) ==
  Expr(parsedVisualizationExpression.chain \o <<datafetch>>)

\* { type: 'expression', chain: [datafetchExpression, ...parsedVisualizationExpression.chain] }
mergedExpression(datafetch, parsedVisualizationExpression) ==
  Expr(<<datafetch>> \o parsedVisualizationExpression.chain)

\* [value, calls]: value is the Ast or Null returned, or the error thrown
prependDatasourceExpression(vizExpression, map, states) ==
  LET c == collectDatasourceExpressions(map, states)
      parsedDatasourceExpressions ==
        [i \in 1..Len(c.datasourceExpressions) |->
           <<c.datasourceExpressions[i][1], Parsed(c.datasourceExpressions[i][2])>>]
      parsedVisualizationExpression == Parsed(vizExpression)
      value ==
        IF c.thrown THEN Thrown("TypeError")
        ELSE IF Len(c.datasourceExpressions) = 0 \/ vizExpression = Null THEN Null
        ELSE IF \E i \in 1..Len(parsedDatasourceExpressions) :
                   parsedDatasourceExpressions[i][2].type = "error"
        THEN Thrown("Unable to parse expression")
        ELSE IF parsedVisualizationExpression.type = "error"
        THEN parsedVisualizationExpression
        ELSE mergedExpression(datafetchExpression(parsedDatasourceExpressions),
                              parsedVisualizationExpression)
  IN [value |-> value, calls |-> c.calls]

----------------------------------------------------------------------------
(* JSON.stringify, as a token sequence *)

RECURSIVE JSONstringify(_)
RECURSIVE stringifyItems(_, _)
RECURSIVE stringifyMembers(_, _)

stringifyItems(items, i) ==
  IF i > Len(items) THEN <<>>
  ELSE (IF i > 1 THEN <<",">> ELSE <<>>) \o JSONstringify(items[i])
       \o stringifyItems(items, i + 1)

stringifyMembers(members, i) ==
  IF i > Len(members) THEN <<>>
  ELSE (IF i > 1 THEN <<",">> ELSE <<>>) \o <<"\"", members[i][1], "\"", ":">>
       \o JSONstringify(members[i][2]) \o stringifyMembers(members, i + 1)

JSONstringify(v) ==
  CASE v.type = "jstr" -> <<"\"", v.s, "\"">>
    [] v.type = "jarr" -> <<"[">> \o stringifyItems(v.items, 1) \o <<"]">>
    [] v.type = "jobj" -> <<"{">> \o stringifyMembers(v.members, 1) \o <<"}">>

----------------------------------------------------------------------------
(* JSON.parse of a token sequence: the routine that reads a serialized     *)
(* context argument back                                                   *)

RECURSIVE parseValue(_, _)
RECURSIVE parseItems(_, _, _)
RECURSIVE parseMembers(_, _, _)

ParseFailed == [ok |-> FALSE]
Tok(toks, i) == IF i <= Len(toks) THEN toks[i] ELSE "<eof>"

\* after "[" or ",": a value, then "," or "]"
parseItems(toks, i, acc) ==
  LET v == parseValue(toks, i)
  IN IF ~v.ok THEN ParseFailed
     ELSE IF Tok(toks, v.next) = ","
          THEN parseItems(toks, v.next + 1, Append(acc, v.value))
     ELSE IF Tok(toks, v.next) = "]"
          THEN [ok |-> TRUE, value |-> JArr(Append(acc, v.value)), next |-> v.next + 1]
     ELSE ParseFailed

\* after "{" or ",": "key": value, then "," or "}"
parseMembers(toks, i, acc) ==
  IF ~(Tok(toks, i) = "\"" /\ Tok(toks, i + 2) = "\"" /\ Tok(toks, i + 3) = ":")
  THEN ParseFailed
  ELSE LET v == parseValue(toks, i + 4)
       IN IF ~v.ok THEN ParseFailed
          ELSE IF Tok(toks, v.next) = ","
               THEN parseMembers(toks, v.next + 1, Append(acc, <<toks[i + 1], v.value>>))
          ELSE IF Tok(toks, v.next) = "}"
               THEN [ok |-> TRUE, value |-> JObj(Append(acc, <<toks[i + 1], v.value>>)),
                     next |-> v.next + 1]
          ELSE ParseFailed

parseValue(toks, i) ==
  CASE Tok(toks, i) = "\"" ->
         IF Tok(toks, i + 2) = "\""
         THEN [ok |-> TRUE, value |-> JStr(toks[i + 1]), next |-> i + 3]
         ELSE ParseFailed
    [] Tok(toks, i) = "[" ->
         IF Tok(toks, i + 1) = "]"
         THEN [ok |-> TRUE, value |-> JArr(<<>>), next |-> i + 2]
         ELSE parseItems(toks, i + 1, <<>>)
    [] Tok(toks, i) = "{" ->
         IF Tok(toks, i + 1) = "}"
         THEN [ok |-> TRUE, value |-> JObj(<<>>), next |-> i + 2]
         ELSE parseMembers(toks, i + 1, <<>>)
    [] OTHER -> ParseFailed

JSONparse(text) ==
  LET r == parseValue(text.text, 1)
  IN IF r.ok /\ r.next = Len(text.text) + 1 THEN r.value ELSE Thrown("SyntaxError")

----------------------------------------------------------------------------
(* prependKibanaContext *)

\* variant: if (expression === null) return null
noExpressionStrict(expr) == expr = Null

\* if (!expression) return null
noExpression(expr) == ~Truthy(expr)

\* variant: [JSON.stringify(x)], where JSON.stringify(undefined) is undefined
contextArgumentUnconditional(x) ==
  IF x = Undefined THEN <<Undefined>> ELSE <<Text(JSONstringify(x))>>

\* variant: x && x.length !== 0 ? [JSON.stringify(x)] : []
contextArgumentNonEmpty(x) ==
  IF Truthy(x) /\ ~(x.type = "jarr" /\ x.items = <<>>)
  THEN <<Text(JSONstringify(x))>>
  ELSE <<>>

\* x ? [JSON.stringify(x)] : []
contextArgument(x) == IF Truthy(x) THEN <<Text(JSONstringify(x))>> ELSE <<>>

prependKibanaContext(expr, tr, q, f) ==
  IF noExpression(expr) THEN Null
  ELSE LET parsedExpression == Parsed(expr)
       IN IF parsedExpression.type = "error" THEN parsedExpression
          ELSE Expr(<< Fn("kibana", NoArgs),
                       Fn("kibana_context",
                          << <<"timeRange", contextArgument(tr)>>,
                             <<"query", contextArgument(q)>>,
                             <<"filters", contextArgument(f)>> >>) >>
                    \o parsedExpression.chain)

----------------------------------------------------------------------------
(* What a call leaves of the expression object it was given *)

\* variant: parsedExpression.chain.unshift(...nodes); return parsedExpression
inputAfterUnshift(input, value) ==
  IF input.type = "expression" /\ value.type = "expression" THEN value ELSE input

\* the returned chain is a new array with the input's chain spread into it; the
\* functions assign to no property of their arguments
inputAfter(input, value) == input

----------------------------------------------------------------------------
(* buildExpression *)

\* variant: prependDatasourceExpression(prependKibanaContext(visualizationExpression, {}), ...)
buildExpressionContextFirst(viz, map, states) ==
  IF viz = Null THEN [value |-> Null, calls |-> <<>>]
  ELSE LET context == prependKibanaContext(viz.toExpression, Undefined, Undefined, Undefined)
       IN IF context.type = "error" THEN [value |-> context, calls |-> <<>>]
          ELSE prependDatasourceExpression(context, map, states)

\* variant: without the early return, visualization.toExpression of null throws
buildExpressionUnguarded(viz, map, states) ==
  IF viz = Null THEN [value |-> Thrown("TypeError"), calls |-> <<>>]
  ELSE LET merged == prependDatasourceExpression(viz.toExpression, map, states)
       IN IF merged.value.type = "error" THEN merged
          ELSE [value |-> prependKibanaContext(merged.value, Undefined, Undefined, Undefined),
                calls |-> merged.calls]

buildExpression(viz, map, states) ==
  IF viz = Null THEN [value |-> Null, calls |-> <<>>]
  ELSE LET vizExpression == viz.toExpression
           merged == prependDatasourceExpression(vizExpression, map, states)
       IN IF merged.value.type = "error" THEN merged
          ELSE [value |-> prependKibanaContext(merged.value, Undefined, Undefined, Undefined),
                calls |-> merged.calls]

----------------------------------------------------------------------------
(* The calls: arguments drawn from bounded sets *)

A == Fn("A", NoArgs)
B == Fn("B", NoArgs)

\* what Visualization.toExpression yields, and what the two prepend functions accept
Expressions ==
  {Null, Expr(<<A>>), Expr(<<A, B>>), Text(<<"A", "|", "B">>), Text(<<>>), Text(<<"|">>)}

Visualizations == {[toExpression |-> e] : e \in Expressions}

LayerLists == UNION {[1..n -> LayerIds] : n \in 0..MaxLayers}

\* the state of a data source: its layers, and per layer whether it has an expression
\* (none, a tree, a text, the empty text, a text that does not parse)
DatasourceStateValues ==
  {s \in [layers : LayerLists, expressions : [LayerIds -> {"null", "ast", "text", "empty", "malformed"}]] :
     \A l \in LayerIds :
       (\A i \in 1..Len(s.layers) : s.layers[i] # l) => s.expressions[l] = "null"}

DatasourceStateEntries == {[isLoading |-> FALSE, state |-> s] : s \in DatasourceStateValues}

RECURSIVE TotalLayers(_)
TotalLayers(states) ==
  IF DOMAIN states = {} THEN 0
  ELSE LET d == CHOOSE e \in DOMAIN states : TRUE
       IN Len(states[d].state.layers)
          + TotalLayers([e \in DOMAIN states \ {d} |-> states[e]])

DatasourceStateMaps ==
  {states \in UNION {[S -> DatasourceStateEntries] : S \in SUBSET DatasourceIds} :
     TotalLayers(states) <= MaxLayers}

DatasourceMaps == {<<>>} \cup {<<d>> : d \in DatasourceIds}
                  \cup {<<d, e>> : <<d, e>> \in {p \in DatasourceIds \X DatasourceIds : p[1] # p[2]}}

TimeRanges == {Undefined, JObj(<< <<"from", JStr("now-15m")>>, <<"to", JStr("now")>> >>)}

Queries == {Undefined, JObj(<< <<"query", JStr("")>>, <<"language", JStr("kuery")>> >>)}

Filter1 == JObj(<< <<"meta", JObj(<< <<"index", JStr("i1")>> >>)>> >>)
Filter2 == JObj(<< <<"meta", JObj(<<>>)>>, <<"query", JStr("q")>> >>)
FilterLists == {Undefined, JArr(<<>>), JArr(<<Filter1>>), JArr(<<Filter1, Filter2>>)}

NoDatasources ==
  /\ datasourceMap = <<>>
  /\ datasourceStates = <<>>

NoContext ==
  /\ expression = Null
  /\ timeRange = Undefined
  /\ query = Undefined
  /\ filters = Undefined

SomeDatasources ==
  /\ datasourceMap \in DatasourceMaps
  /\ datasourceStates \in DatasourceStateMaps

Init ==
  /\ UiIdle
  /\ pc = "called"
  /\ result = Null
  /\ requested = <<>>
  /\ \/ /\ op = "prependDatasourceExpression"
        /\ visualizationExpression \in Expressions
        /\ visualization = Null
        /\ SomeDatasources
        /\ NoContext
     \/ /\ op = "prependKibanaContext"
        /\ expression \in Expressions
        /\ timeRange \in TimeRanges
        /\ query \in Queries
        /\ filters \in FilterLists
        /\ visualization = Null
        /\ visualizationExpression = Null
        /\ NoDatasources
     \/ /\ op = "buildExpression"
        /\ visualization \in {Null} \cup Visualizations
        /\ visualizationExpression = Null
        /\ SomeDatasources
        /\ NoContext

Finish(value, calls) ==
  /\ result' = value
  /\ requested' = calls
  /\ pc' = IF value.type = "error" THEN "thrown" ELSE "returned"
  /\ UNCHANGED <<op, datasourceMap, datasourceStates, timeRange, query, filters>>
  /\ UNCHANGED uiVars

PrependDatasourceExpression ==
  /\ pc = "called"
  /\ op = "prependDatasourceExpression"
  /\ LET r == prependDatasourceExpression(visualizationExpression, datasourceMap,
                                          datasourceStates)
     IN /\ Finish(r.value, r.calls)
        /\ visualizationExpression' = inputAfter(visualizationExpression, r.value)
  /\ UNCHANGED <<visualization, expression>>

PrependKibanaContext ==
  /\ pc = "called"
  /\ op = "prependKibanaContext"
  /\ LET value == prependKibanaContext(expression, timeRange, query, filters)
     IN /\ Finish(value, <<>>)
        /\ expression' = inputAfter(expression, value)
  /\ UNCHANGED <<visualization, visualizationExpression>>

BuildExpression ==
  /\ pc = "called"
  /\ op = "buildExpression"
  /\ LET r == buildExpression(visualization, datasourceMap, datasourceStates)
     IN /\ Finish(r.value, r.calls)
        /\ visualization' =
             IF visualization = Null THEN Null
             ELSE [toExpression |->
                     inputAfter(visualization.toExpression,
                                prependDatasourceExpression(visualization.toExpression,
                                                            datasourceMap,
                                                            datasourceStates).value)]
  /\ UNCHANGED <<visualizationExpression, expression>>

Next == PrependDatasourceExpression \/ PrependKibanaContext \/ BuildExpression

Spec == Init /\ [][Next]_vars

----------------------------------------------------------------------------
(* Vocabulary of the properties *)

Done(f) == op = f /\ pc # "called"
Returned(f) == op = f /\ pc = "returned"
ReturnedTree(f) == Returned(f) /\ result.type = "expression"

HasState(d) == datasourceMap[d] \in DOMAIN datasourceStates
StateOf(d) == datasourceStates[datasourceMap[d]].state
LayersOf(d) == StateOf(d).layers

\* <<d, j>>: layer j of the d-th data source of the map, over the data sources with a state
Positions ==
  UNION {{<<d, j>> : j \in 1..Len(LayersOf(d))} : d \in {e \in 1..Len(datasourceMap) : HasState(e)}}

LayerAt(p) == LayersOf(p[1])[p[2]]
Yield(p) == toExpression(datasourceMap[p[1]], StateOf(p[1]), LayerAt(p))
Before(q, p) == q[1] < p[1] \/ (q[1] = p[1] /\ q[2] < p[2])

NoLayerExpression == \A p \in Positions : Yield(p) = Null
SomeStateMissing == \E d \in 1..Len(datasourceMap) : ~HasState(d)

\* the layers the merge node carries: those with a tree or a non-empty text
Kept == {p \in Positions : Yield(p) # Null /\ Yield(p) # Text(<<>>)}
Reported == {p \in Positions : Yield(p) # Null}
Rank(S, p) == Cardinality({q \in S : Before(q, p) \/ q = p})

TreeForm(x) == IF x.type = "string" THEN fromExpression(x) ELSE x

MergeNode == result.chain[1]

----------------------------------------------------------------------------
\* C1: buildExpression returns null whenever visualization is null, whatever the
\* data-source map and the data-source states are.
C1_BuildAbsentVisualization ==
  (Done("buildExpression") /\ visualization = Null) => (pc = "returned" /\ result = Null)

C1_Witness ==
  /\ Returned("buildExpression")
  /\ visualization = Null
  /\ datasourceMap = <<"ds1", "ds2">>
  /\ "ds2" \notin DOMAIN datasourceStates

\* C2 (as claimed): prependDatasourceExpression returns null whenever no data source
\* reports a layer expression, and whenever the visualization expression is null.
C2_MergeAbsent ==
  (Done("prependDatasourceExpression") /\ (NoLayerExpression \/ visualizationExpression = Null))
    => (pc = "returned" /\ result = Null)

\* C3 (as claimed): buildExpression is all-or-nothing: with no visualization, no
\* visualization expression or no layer expression it returns null, and a tree it
\* returns is never partial (context nodes, merge node, visualization chain).
C3_AllOrNothing ==
  Done("buildExpression") =>
    /\ (visualization = Null \/ visualization.toExpression = Null \/ NoLayerExpression)
         => (pc = "returned" /\ result = Null)
    /\ (pc = "returned" /\ result # Null) =>
         /\ result.type = "expression"
         /\ Len(result.chain) = 3 + Len(TreeForm(visualization.toExpression).chain)
         /\ result.chain[1].function = "kibana"
         /\ result.chain[2].function = "kibana_context"
         /\ result.chain[3].function = "lens_merge_tables"

\* C4: in the merge node, layerIds and tables have equal length and tables[i] is the
\* (tree form of the) expression of layer layerIds[i], the pairs in the order of the
\* data-source map and, within a data source, in the order of getLayers.
C4_ParallelSequences ==
  ReturnedTree("prependDatasourceExpression") =>
    LET ids == Arg(MergeNode, "layerIds")
        tables == Arg(MergeNode, "tables")
    IN /\ Len(ids) = Len(tables)
       /\ Len(ids) = Cardinality(Kept)
       /\ \A p \in Kept : /\ ids[Rank(Kept, p)] = LayerAt(p)
                          /\ tables[Rank(Kept, p)] = TreeForm(Yield(p))

C4_Witness ==
  /\ ReturnedTree("prependDatasourceExpression")
  /\ datasourceMap = <<"ds2", "ds1">>
  /\ Cardinality(Positions) = 3
  /\ Kept = {<<2, 1>>, <<2, 2>>}
  /\ Arg(MergeNode, "layerIds") = <<"L2", "L1">>
  /\ Yield(<<2, 1>>).type = "string"
  /\ Yield(<<2, 2>>).type = "expression"

\* C5: a tree returned by prependDatasourceExpression is one lens_merge_tables node
\* followed by the nodes of the visualization's chain, all of them, in order.
C5_MergeThenVisualization ==
  ReturnedTree("prependDatasourceExpression") =>
    LET chain == TreeForm(visualizationExpression).chain
    IN /\ Len(result.chain) = 1 + Len(chain)
       /\ MergeNode.function = "lens_merge_tables"
       /\ \A i \in 1..Len(chain) : result.chain[i + 1] = chain[i]
       /\ \A i \in 2..Len(result.chain) : result.chain[i].function # "lens_merge_tables"

C5_Witness ==
  /\ ReturnedTree("prependDatasourceExpression")
  /\ Len(result.chain) = 3
  /\ visualizationExpression.type = "string"

\* C6 (as claimed): toExpression is requested for every layer every data source
\* reports; a layer with no expression is left out without an error and every layer
\* that yields an expression is in the merge node.
C6_EveryLayerRequested ==
  Done("prependDatasourceExpression") =>
    /\ \A d \in 1..Len(datasourceMap) :
         HasState(d) => \A j \in 1..Len(LayersOf(d)) :
           \E k \in 1..Len(requested) : requested[k] = <<datasourceMap[d], LayersOf(d)[j]>>
    /\ result.type = "error" => result.error = "Unable to parse expression"
    /\ result.type = "expression" =>
         /\ Len(Arg(MergeNode, "layerIds")) = Cardinality(Reported)
         /\ Len(Arg(MergeNode, "tables")) = Cardinality(Reported)
         /\ \A p \in Reported : Arg(MergeNode, "layerIds")[Rank(Reported, p)] = LayerAt(p)

\* the expressions prependKibanaContext turns into a tree: a tree, or a non-empty
\* text that parses
Attachable(x) ==
  \/ x.type = "expression"
  \/ x.type = "string" /\ x.text # <<>> /\ WellFormed(x.text)

NoContextGiven == timeRange = Undefined /\ query = Undefined /\ filters = Undefined

ContextNode == result.chain[2]

\* kibana with no arguments, kibana_context with three empty arguments, then the chain
EmptyContextThen(chain) ==
  /\ result.type = "expression"
  /\ Len(result.chain) = 2 + Len(chain)
  /\ result.chain[1] = Fn("kibana", NoArgs)
  /\ ContextNode.function = "kibana_context"
  /\ Len(ContextNode.arguments) = 3
  /\ Arg(ContextNode, "timeRange") = <<>>
  /\ Arg(ContextNode, "query") = <<>>
  /\ Arg(ContextNode, "filters") = <<>>
  /\ \A i \in 1..Len(chain) : result.chain[i + 2] = chain[i]

\* C7 (as claimed): prependKibanaContext of any non-null expression with no time
\* range, query or filters returns kibana, kibana_context with three empty arguments,
\* then the original chain.
C7_EmptyContextAnyExpression ==
  (Done("prependKibanaContext") /\ expression # Null /\ NoContextGiven) =>
    /\ pc = "returned"
    /\ result.type = "expression"
    /\ EmptyContextThen(TreeForm(expression).chain)

\* C7 (amended): prependKibanaContext of a tree or of a non-empty text that parses,
\* with no time range, query or filters, returns kibana, kibana_context with three
\* empty arguments, then the chain of the expression's tree form.
C7_EmptyContext ==
  (Done("prependKibanaContext") /\ Attachable(expression) /\ NoContextGiven) =>
    /\ pc = "returned"
    /\ EmptyContextThen(TreeForm(expression).chain)

C7_Witness ==
  /\ ReturnedTree("prependKibanaContext")
  /\ NoContextGiven
  /\ expression = Text(<<"A", "|", "B">>)
  /\ Len(result.chain) = 4

\* the kibana_context argument of one context parameter: one serialized text that
\* parses back to the parameter if it was supplied, no value otherwise
SerializedOrEmpty(name, x) ==
  LET values == Arg(ContextNode, name)
  IN IF x = Undefined
     THEN values = <<>>
     ELSE /\ Len(values) = 1
          /\ values[1].type = "string"
          /\ JSONparse(values[1]) = x

\* C8: each of timeRange, query and filters of kibana_context is, independently of
\* the other two, one serialized text that parses back to the parameter when the
\* parameter is supplied (an empty filters array included), and empty otherwise.
C8_ContextArguments ==
  ReturnedTree("prependKibanaContext") =>
    /\ SerializedOrEmpty("timeRange", timeRange)
    /\ SerializedOrEmpty("query", query)
    /\ SerializedOrEmpty("filters", filters)

C8_Witness ==
  /\ ReturnedTree("prependKibanaContext")
  /\ timeRange # Undefined
  /\ query = Undefined
  /\ filters = JArr(<<>>)
  /\ Arg(ContextNode, "filters") = <<Text(<<"[", "]">>)>>
  /\ Len(Arg(ContextNode, "timeRange")[1].text) = 17

\* C9 (as claimed): prependKibanaContext returns null exactly when its expression is
\* null, and a tree for every other expression, tree or text.
C9_AbsentIffNull ==
  Done("prependKibanaContext") =>
    IF expression = Null
    THEN pc = "returned" /\ result = Null
    ELSE pc = "returned" /\ result.type = "expression"

\* C9 (amended): prependKibanaContext returns null exactly when its expression is
\* null or the empty text, a tree for every tree and every non-empty text that
\* parses, whatever the context, and fails with the parser's error otherwise.
C9_AbsentIffNullOrEmpty ==
  Done("prependKibanaContext") =>
    /\ (pc = "returned" /\ result = Null) <=> (expression = Null \/ expression = Text(<<>>))
    /\ Attachable(expression) => (pc = "returned" /\ result.type = "expression")
    /\ ~(expression = Null \/ expression = Text(<<>>) \/ Attachable(expression))
         => (pc = "thrown" /\ result = Thrown("Unable to parse expression"))

C9_Witness ==
  /\ Returned("prependKibanaContext")
  /\ expression = Text(<<>>)
  /\ result = Null
  /\ filters = JArr(<<Filter1, Filter2>>)

RequiredInputMissing ==
  \/ SomeStateMissing
  \/ datasourceMap = <<>>
  \/ op = "prependDatasourceExpression" /\ visualizationExpression = Null
  \/ op = "buildExpression" /\ (visualization = Null \/ visualization.toExpression = Null)

\* C10 (as claimed): when a required input is missing (a data source of the map
\* without an entry in the data-source states included), prependDatasourceExpression
\* and buildExpression return null and throw nothing.
C10_NeverThrows ==
  ((Done("prependDatasourceExpression") \/ Done("buildExpression")) /\ RequiredInputMissing)
    => (pc = "returned" /\ result = Null)

C12_ChainOrder ==
  ReturnedTree("buildExpression") =>
    LET chain == TreeForm(visualization.toExpression).chain
    IN /\ Len(result.chain) = 3 + Len(chain)
       /\ result.chain[1] = Fn("kibana", NoArgs)
       /\ ContextNode.function = "kibana_context"
       /\ Arg(ContextNode, "timeRange") = <<>>
       /\ Arg(ContextNode, "query") = <<>>
       /\ Arg(ContextNode, "filters") = <<>>
       /\ result.chain[3].function = "lens_merge_tables"
       /\ Len(Arg(result.chain[3], "layerIds")) = Cardinality(Kept)
       /\ \A i \in 1..Len(chain) : result.chain[i + 3] = chain[i]

C12_Witness ==
  /\ ReturnedTree("buildExpression")
  /\ visualization = [toExpression |-> Text(<<"A", "|", "B">>)]
  /\ Len(result.chain) = 5
  /\ Len(Arg(result.chain[3], "tables")) = 2

(***************************************************************************)
(* Alerting UI: Plugin.setup and Plugin.start (plugin.ts), the AlertsList  *)
(* component with loadAlertsData and deleteItems, and the http requests of *)
(* loadAlerts and deleteAlerts (api.ts).  An await is a position of the    *)
(* call; a request settles in a step of its own.                           *)
(***************************************************************************)

\* deleteItems calls of one run
MaxCalls == 2

AlertIds == {"a1", "a2"}

\* the two base paths imported from '../constants'
BASE_ACTION_API_PATH == "BASE_ACTION_API_PATH"

BASE_ALERT_API_PATH == "BASE_ALERT_API_PATH"

Capabilities ==
  [actions : [show : BOOLEAN], alerting : [show : BOOLEAN, delete : BOOLEAN]]

canShowActions == capabilities.actions.show

canShowAlerts == capabilities.alerting.show

canDelete == capabilities.alerting.delete

\* variant: if (canShowActions && canShowAlerts)
setupRegistersBoth(showActions, showAlerts) == showActions /\ showAlerts

\* if (canShowActions || canShowAlerts)
setupRegisters(showActions, showAlerts) == showActions \/ showAlerts

\* if (!canShowActions && !canShowAlerts) return;
startReturns(showActions, showAlerts) == ~showActions /\ ~showAlerts

\* an array holding the members of a set, in an order fixed per set
RECURSIVE ArrayOf(_)
ArrayOf(S) ==
  IF S = {} THEN <<>>
  ELSE LET x == CHOOSE y \in S : TRUE IN <<x>> \o ArrayOf(S \ {x})

\* http.delete(`${base}/${id}`) issued by call `by`
deleteRequest(base, id, by) ==
  [method |-> "DELETE", base |-> base, path |-> id, by |-> by, status |-> "pending"]

\* ids.map(id => http.delete(`${BASE_ACTION_API_PATH}/${id}`)): the requests
\* deleteAlerts issues, in order
deleteAlerts(ids, by) ==
  [i \in 1..Len(ids) |-> deleteRequest(BASE_ACTION_API_PATH, ids[i], by)]

\* ids.map(id => http.delete(`${BASE_ACTION_API_PATH}/${id}`)) of deleteActions
deleteActions(ids, by) ==
  [i \in 1..Len(ids) |-> deleteRequest(BASE_ACTION_API_PATH, ids[i], by)]

\* http.get(`${BASE_ALERT_API_PATH}/_find`, ...) issued by call `by`
\* (0: the effect run on mount)
loadAlerts(by) ==
  [method |-> "GET", base |-> BASE_ALERT_API_PATH, path |-> "_find", by |-> by,
   status |-> "pending"]

\* the DELETE requests of call c
DeletesOf(reqs, c) ==
  {r \in 1..Len(reqs) : reqs[r].method = "DELETE" /\ reqs[r].by = c}

\* the GET requests of call c
LoadsOf(reqs, c) ==
  {r \in 1..Len(reqs) : reqs[r].method = "GET" /\ reqs[r].by = c}

\* Promise.all: fulfilled once every promise is fulfilled
allFulfilled(reqs, c) == \A r \in DeletesOf(reqs, c) : reqs[r].status = "ok"

\* toastNotifications.addDanger({ title }), after `issued` requests
danger(title, by, issued) == [title |-> title, by |-> by, after |-> issued]

LensIdle ==
  /\ op = "none"
  /\ pc = "idle"
  /\ visualization = Null
  /\ visualizationExpression = Null
  /\ datasourceMap = <<>>
  /\ datasourceStates = <<>>
  /\ expression = Null
  /\ timeRange = Undefined
  /\ query = Undefined
  /\ filters = Undefined
  /\ result = Null
  /\ requested = <<>>

InitAlerts ==
  /\ LensIdle
  /\ capabilities \in Capabilities
  /\ Constructed

Setup ==
  /\ lifecycle = "constructed"
  /\ lifecycle' = "setup"
  /\ sections' = IF setupRegisters(canShowActions, canShowAlerts)
                 THEN sections \cup {"alerting"} ELSE sections
  /\ UNCHANGED <<capabilities, services, routesRegistered, mounted, alerts, selectedItems,
                 isLoadingAlerts, isDeletingActions, requests, deleteCalls, toasts>>
  /\ UNCHANGED lensVars

Start ==
  /\ lifecycle = "setup"
  /\ lifecycle' = "started"
  /\ IF startReturns(canShowActions, canShowAlerts)
     THEN UNCHANGED <<services, routesRegistered>>
     ELSE /\ services' = services \cup {"docTitleService", "breadcrumbService"}
          /\ routesRegistered' = TRUE
  /\ UNCHANGED <<capabilities, sections, mounted, alerts, selectedItems,
                 isLoadingAlerts, isDeletingActions, requests, deleteCalls, toasts>>
  /\ UNCHANGED lensVars

\* the route's controller renders the application; AlertsList runs its effect
\* loadAlertsData() once
Mount ==
  /\ lifecycle = "started" /\ routesRegistered /\ ~mounted
  /\ mounted' = TRUE
  /\ isLoadingAlerts' = TRUE
  /\ requests' = Append(requests, loadAlerts(0))
  /\ UNCHANGED <<capabilities, lifecycle, sections, services, routesRegistered, alerts,
                 selectedItems, isDeletingActions, deleteCalls, toasts>>
  /\ UNCHANGED lensVars

OnSelectionChange ==
  /\ mounted
  /\ \E updatedSelectedItemsList \in SUBSET alerts :
       /\ updatedSelectedItemsList # selectedItems
       /\ selectedItems' = updatedSelectedItemsList
  /\ UNCHANGED <<capabilities, lifecycle, sections, services, routesRegistered, mounted, alerts,
                 isLoadingAlerts, isDeletingActions, requests, deleteCalls, toasts>>
  /\ UNCHANGED lensVars

\* deleteItems(items) up to its first await
deleteItems(items) ==
  LET c == Len(deleteCalls) + 1
      ids == ArrayOf(items)
  IN /\ Len(deleteCalls) < MaxCalls
     /\ isDeletingActions' = TRUE
     /\ requests' = requests \o deleteAlerts(ids, c)
     /\ deleteCalls' = Append(deleteCalls, [ids |-> ids, pc |-> "deleteAlerts"])
     /\ UNCHANGED <<capabilities, lifecycle, sections, services, routesRegistered, mounted,
                    alerts, selectedItems, isLoadingAlerts, toasts>>
     /\ UNCHANGED lensVars

\* the row's delete action: onClick: (item) => deleteItems([item])
DeleteItem ==
  /\ mounted /\ canDelete
  /\ \E item \in alerts : deleteItems({item})

\* the bulk delete button: onClick={deleteSelectedItems}
DeleteSelectedItems ==
  /\ mounted /\ canDelete /\ selectedItems # {}
  /\ deleteItems(selectedItems)

\* a DELETE request settles; the deleteItems call awaiting Promise.all goes on when
\* the promise settles: fulfilled with the last request, rejected with the first
\* failure. It then shows the toast (catch) and enters loadAlertsData() up to
\* its await.
SettleDelete ==
  \E r \in 1..Len(requests) : \E status \in {"ok", "failed"} :
    /\ requests[r].method = "DELETE" /\ requests[r].status = "pending"
    /\ LET c == requests[r].by
           settled == [requests EXCEPT ![r].status = status]
           awaiting == deleteCalls[c].pc = "deleteAlerts"
       IN IF awaiting /\ status = "failed"
          THEN /\ toasts' = Append(toasts, danger("Failed to delete alert(s)", c, Len(settled)))
               /\ isLoadingAlerts' = TRUE
               /\ requests' = Append(settled, loadAlerts(c))
               /\ deleteCalls' = [deleteCalls EXCEPT ![c].pc = "loadAlertsData"]
          ELSE IF awaiting /\ allFulfilled(settled, c)
          THEN /\ isLoadingAlerts' = TRUE
               /\ requests' = Append(settled, loadAlerts(c))
               /\ deleteCalls' = [deleteCalls EXCEPT ![c].pc = "loadAlertsData"]
               /\ UNCHANGED toasts
          ELSE /\ requests' = settled
               /\ UNCHANGED <<isLoadingAlerts, deleteCalls, toasts>>
    /\ UNCHANGED <<capabilities, lifecycle, sections, services, routesRegistered, mounted,
                   alerts, selectedItems, isDeletingActions>>
    /\ UNCHANGED lensVars

\* a GET request settles: loadAlertsData goes on after its await and returns; a
\* deleteItems call awaiting it runs its finally block and finishes
SettleLoad ==
  \E r \in 1..Len(requests) : \E status \in {"ok", "failed"} :
    /\ requests[r].method = "GET" /\ requests[r].status = "pending"
    /\ LET c == requests[r].by
       IN /\ requests' = [requests EXCEPT ![r].status = status]
          /\ IF status = "ok"
             THEN /\ \E data \in SUBSET AlertIds : alerts' = data
                  /\ UNCHANGED toasts
             ELSE /\ toasts' = Append(toasts, danger("Unable to load alerts", c, Len(requests)))
                  /\ UNCHANGED alerts
          /\ isLoadingAlerts' = FALSE
          /\ IF c = 0
             THEN UNCHANGED <<isDeletingActions, deleteCalls>>
             ELSE /\ isDeletingActions' = FALSE
                  /\ deleteCalls' = [deleteCalls EXCEPT ![c].pc = "finished"]
    /\ UNCHANGED <<capabilities, lifecycle, sections, services, routesRegistered, mounted,
                   selectedItems>>
    /\ UNCHANGED lensVars

NextAlerts ==
  \/ Setup
  \/ Start
  \/ Mount
  \/ OnSelectionChange
  \/ DeleteItem
  \/ DeleteSelectedItems
  \/ SettleDelete
  \/ SettleLoad

SpecAlerts == InitAlerts /\ [][NextAlerts]_vars

(***************************************************************************)
(* Vocabulary of the alerting UI properties                                *)
(***************************************************************************)

Calls == 1..Len(deleteCalls)

InProgress(c) == deleteCalls[c].pc # "finished"

Pending(reqs, c) == {r \in DeletesOf(reqs, c) : reqs[r].status = "pending"}

Failed(reqs, c) == {r \in DeletesOf(reqs, c) : reqs[r].status = "failed"}

FailureToasts(ts, c) ==
  {t \in 1..Len(ts) : ts[t].by = c /\ ts[t].title = "Failed to delete alert(s)"}

\* C13: a deleteItems call issues its reload only when none of its delete requests
\* is pending, and after the danger toast if one of them failed; when it finishes
\* it has reloaded exactly once and isDeletingActions is false.
C13_ReloadOnceAfterSettled ==
  [][\A c \in 1..Len(deleteCalls') :
       /\ LoadsOf(requests', c) # LoadsOf(requests, c) =>
            /\ Pending(requests', c) = {}
            /\ Failed(requests', c) # {} =>
                 \E t \in FailureToasts(toasts', c) :
                   \A r \in LoadsOf(requests', c) : toasts'[t].after < r
       /\ (c \in Calls /\ InProgress(c) /\ deleteCalls'[c].pc = "finished") =>
            /\ Cardinality(LoadsOf(requests', c)) = 1
            /\ ~isDeletingActions']_vars

\* C14: once setup has run, the 'alerting' management section is registered iff
\* capabilities report actions.show or alerting.show; once start has run, the title
\* and breadcrumb services are initialised and the route is registered iff they do;
\* when both are false nothing is registered, initialised or rendered.
C14_EntryPointsIffShow ==
  LET show == capabilities.actions.show \/ capabilities.alerting.show
  IN /\ lifecycle # "constructed" => ("alerting" \in sections <=> show)
     /\ lifecycle = "started" =>
          /\ services = {"docTitleService", "breadcrumbService"} <=> show
          /\ routesRegistered <=> show
     /\ ~show => sections = {} /\ services = {} /\ ~routesRegistered /\ ~mounted

C14_Witness ==
  /\ lifecycle = "started"
  /\ ~capabilities.actions.show /\ capabilities.alerting.show
  /\ "alerting" \in sections
  /\ services = {"docTitleService", "breadcrumbService"}
  /\ routesRegistered

\* C15: whenever a deleteItems call has started and not finished, isDeletingActions
\* is true.
C15_DeletingWhileInProgress ==
  (\E c \in Calls : InProgress(c)) => isDeletingActions

\* C16: deleteAlerts issues exactly one DELETE request per id, addressed to the alert
\* API base path followed by the id and not where deleteActions sends it; it
\* completes only when none of these requests is pending, and fails if one failed.
C16_DeleteAlertsRequests ==
  \A c \in Calls :
    LET ids == deleteCalls[c].ids
        completed == deleteCalls[c].pc # "deleteAlerts"
    IN /\ Cardinality(DeletesOf(requests, c)) = Len(ids)
       /\ \A i \in 1..Len(ids) :
            /\ Cardinality({r \in DeletesOf(requests, c) :
                              /\ requests[r].base = BASE_ALERT_API_PATH
                              /\ requests[r].path = ids[i]}) = 1
            /\ deleteAlerts(ids, c)[i] # deleteActions(ids, c)[i]
       /\ completed => Pending(requests, c) = {}
       /\ (completed /\ Failed(requests, c) # {}) => FailureToasts(toasts, c) # {}

====
